---------------------------- MODULE Spec2Model ----------------------------
(***************************************************************************)
(* Model of src/driver/linux_net/nic.c: interrupt hooking and teardown,    *)
(* the register-dump catalogue (length and extraction passes), the         *)
(* statistics codec (describe / update) and the rx_nodesc_drops            *)
(* correction.                                                             *)
(***************************************************************************)
EXTENDS Integers, Sequences, FiniteSets, TLC

VARIABLES
    \* ---- efx_nic_fix_nodesc_drop_stat: per-device correction state
    rx_nodesc_drops_total,       \* u64
    rx_nodesc_drops_while_down,  \* u64
    rx_nodesc_drops_prev_state,  \* bool
    net_dev_up,                  \* efx->net_dev->flags & IFF_UP
    raw_level,                   \* index in RawLevels of the hardware counter
    nodesc_log,                  \* history: one record per call
    \* ---- efx_nic_init_interrupt / efx_nic_fini_interrupt
    CONFIG_RFS_ACCEL,            \* build option
    interrupt_mode,              \* efx->interrupt_mode
    n_channels,                  \* efx->n_channels
    n_rx_channels,               \* efx->n_rx_channels
    irq_hooked,                  \* channels whose channel->irq has our handler
    legacy_hooked,               \* efx->legacy_irq has our handler
    rmap_objs,                   \* cpu_rmap objects allocated and not freed
    rmap_irqs,                   \* channels whose irq was added to the map
    rx_cpu_rmap,                 \* net_dev->rx_cpu_rmap is non-NULL
    irq_op,                      \* last operation: "none", "init", "fini"
    irq_rc,                      \* return code of the last init
    irq_trace,                   \* kernel calls made by the last operation
    irq_pre,                     \* resources held when the last operation began
    irq_ops,                     \* number of operations so far
    \* ---- efx_nic_get_regs_len / efx_nic_get_regs
    revision,                    \* efx->type->revision
    reg_tables,                  \* the static array efx_nic_reg_tables
    regs_len,                    \* result of efx_nic_get_regs_len, -1 before
    dump_pc,                     \* position of efx_nic_get_regs
    dump_i,                      \* catalogue index of the loop
    dump_row,                    \* i of the row loop
    buf,                         \* output cursor, as an offset in the buffer
    hi_water,                    \* end of the highest byte written
    bytes_written,               \* bytes written so far
    last_read,                   \* the last hardware read issued
    \* ---- efx_nic_describe_stats / efx_nic_update_stats
    stat_desc,                   \* desc[]: name, dma_width, offset
    stat_count,                  \* count
    stat_mask,                   \* mask, as the set of its set bits
    stats,                       \* stats[]: u64 each
    upd_log,                     \* history: one record per update call
    names_given,                 \* the last describe was given a names buffer
    names_buf,                   \* the bytes of the names buffer
    visible                      \* result of the last describe, -1 before

nodescVars == <<rx_nodesc_drops_total, rx_nodesc_drops_while_down,
                rx_nodesc_drops_prev_state, net_dev_up, raw_level, nodesc_log>>

irqVars == <<CONFIG_RFS_ACCEL, interrupt_mode, n_channels, n_rx_channels,
             irq_hooked, legacy_hooked, rmap_objs, rmap_irqs, rx_cpu_rmap,
             irq_op, irq_rc, irq_trace, irq_pre, irq_ops>>

regsVars == <<revision, reg_tables, regs_len,
              dump_pc, dump_i, dump_row, buf, hi_water, bytes_written,
              last_read>>

statVars == <<stat_desc, stat_count, stat_mask, stats, upd_log, names_given,
              names_buf, visible>>

vars == <<nodescVars, irqVars, regsVars, statVars>>

-----------------------------------------------------------------------------
(* u64 arithmetic.  A u64 is four 16-bit limbs, least significant first, so  *)
(* that the full 64-bit width (and its wrap-around) is kept.                 *)

Limb == 2^16

U64Zero == <<0, 0, 0, 0>>

\* a + b modulo 2^64
AddU64(a, b) ==
    LET s1 == a[1] + b[1]
        s2 == a[2] + b[2] + (s1 \div Limb)
        s3 == a[3] + b[3] + (s2 \div Limb)
        s4 == a[4] + b[4] + (s3 \div Limb)
    IN  <<s1 % Limb, s2 % Limb, s3 % Limb, s4 % Limb>>

\* a - b modulo 2^64
SubU64(a, b) ==
    LET d1 == a[1] - b[1]
        w1 == IF d1 < 0 THEN 1 ELSE 0
        d2 == a[2] - b[2] - w1
        w2 == IF d2 < 0 THEN 1 ELSE 0
        d3 == a[3] - b[3] - w2
        w3 == IF d3 < 0 THEN 1 ELSE 0
        d4 == a[4] - b[4] - w3
        w4 == IF d4 < 0 THEN 1 ELSE 0
    IN  <<d1 + w1 * Limb, d2 + w2 * Limb, d3 + w3 * Limb, d4 + w4 * Limb>>

\* a <= b as unsigned 64-bit numbers
LeU64(a, b) ==
    \/ a = b
    \/ \E k \in 1..4 : /\ a[k] < b[k]
                       /\ \A j \in (k + 1)..4 : a[j] = b[j]

-----------------------------------------------------------------------------
(* efx_nic_fix_nodesc_drop_stat                                              *)

\* Number of refresh calls explored.
MaxCalls == 4

\* Readings of the hardware counter, in non-decreasing order.
RawLevels == << <<0, 0, 0, 0>>,
                <<100, 0, 0, 0>>,
                <<150, 0, 0, 0>>,
                <<65535, 0, 0, 0>>,
                <<170, 1, 0, 0>>,
                <<65535, 65535, 65535, 65535>> >>

\* line 609: if down, or this is the first update after coming up
\* (variant: folds only while the link is down)
NodescFoldOnlyWhenDown(up, prev) == ~up
NodescFold(up, prev) == ~up \/ ~prev

\* line 611: *rx_nodesc_drops - efx->rx_nodesc_drops_total
\* (variant: the previous total is not subtracted)
NodescDeltaNoBase(raw, total) == raw
NodescDelta(raw, total) == SubU64(raw, total)

\* lines 606-615: the whole function, on raw counter value RawLevels[lvl]
efx_nic_fix_nodesc_drop_stat(lvl) ==
    LET raw        == RawLevels[lvl]
        while_down == IF NodescFold(net_dev_up, rx_nodesc_drops_prev_state)
                      THEN AddU64(rx_nodesc_drops_while_down,
                                  NodescDelta(raw, rx_nodesc_drops_total))
                      ELSE rx_nodesc_drops_while_down
    IN  /\ Len(nodesc_log) < MaxCalls
        /\ rx_nodesc_drops_while_down' = while_down
        /\ rx_nodesc_drops_total' = raw
        /\ rx_nodesc_drops_prev_state' = net_dev_up
        /\ raw_level' = lvl
        /\ nodesc_log' = Append(nodesc_log,
                                [up        |-> net_dev_up,
                                 raw       |-> raw,
                                 prev      |-> rx_nodesc_drops_prev_state,
                                 corrected |-> SubU64(raw, while_down)])
        /\ UNCHANGED net_dev_up

\* The statistics refresh reads the (monotonic) hardware counter and calls
\* the correction.
NodescRefresh ==
    \E lvl \in raw_level..Len(RawLevels) : efx_nic_fix_nodesc_drop_stat(lvl)

\* ifup / ifdown: the network stack flips IFF_UP between refreshes.
NodescLinkChange ==
    /\ Len(nodesc_log) < MaxCalls
    /\ net_dev_up' = ~net_dev_up
    /\ UNCHANGED <<rx_nodesc_drops_total, rx_nodesc_drops_while_down,
                   rx_nodesc_drops_prev_state, raw_level, nodesc_log>>

NodescInit ==
    /\ rx_nodesc_drops_total = U64Zero
    /\ rx_nodesc_drops_while_down = U64Zero
    /\ rx_nodesc_drops_prev_state = FALSE
    /\ net_dev_up \in BOOLEAN
    /\ raw_level = 1
    /\ nodesc_log = <<>>

NodescNext ==
    \/ NodescRefresh /\ UNCHANGED <<irqVars, regsVars, statVars>>
    \/ NodescLinkChange /\ UNCHANGED <<irqVars, regsVars, statVars>>

NodescIdle ==
    /\ rx_nodesc_drops_total = U64Zero
    /\ rx_nodesc_drops_while_down = U64Zero
    /\ rx_nodesc_drops_prev_state = FALSE
    /\ net_dev_up = FALSE
    /\ raw_level = 1
    /\ nodesc_log = <<>>

-----------------------------------------------------------------------------
(* efx_nic_init_interrupt / efx_nic_fini_interrupt                           *)

\* Largest number of channels explored.
MaxChannels == 3

\* Number of init / fini operations explored.
MaxIrqOps == 3

Range(q) == {q[i] : i \in 1..Len(q)}

Reverse(q) == [i \in 1..Len(q) |-> q[Len(q) + 1 - i]]

\* line 107: EFX_INT_MODE_USE_MSI(efx)
EFX_INT_MODE_USE_MSI == interrupt_mode \in {"MSIX", "MSI"}

\* lines 132, 166, 191: efx_for_each_channel visits the channels in channel
\* order; the sequence of channel numbers visited.
efx_for_each_channel == [i \in 1..n_channels |-> i - 1]

\* lines 121, 144: an affinity map is used only with CONFIG_RFS_ACCEL in
\* MSI-X mode
UsesRmap == CONFIG_RFS_ACCEL /\ interrupt_mode = "MSIX"

\* lines 144-145: this channel's irq is added to the affinity map
RmapChannel(ch) == UsesRmap /\ ch < n_rx_channels

\* What the kernel answers during one init: whether alloc_irq_cpu_rmap
\* succeeds, and at which visited channel (0: none) which call fails.
InitOutcomes ==
    {o \in [alloc_ok : BOOLEAN, fail_at : 0..n_channels,
            fail_kind : {"none", "request_irq", "irq_cpu_rmap_add"}] :
        /\ (o.fail_at = 0) <=> (o.fail_kind = "none")
        /\ ~o.alloc_ok => (UsesRmap /\ o.fail_at = 0)
        /\ o.fail_kind = "irq_cpu_rmap_add" =>
               RmapChannel(efx_for_each_channel[o.fail_at])}

\* lines 131-151: the hooking loop from visited position i, as the code runs
\* it; st carries n_irqs, the vectors hooked, the irqs added to the map, the
\* calls made and rc.
RECURSIVE HookLoop(_, _, _)
HookLoop(i, st, o) ==
    IF i > n_channels
    THEN st
    ELSE
      LET ch == efx_for_each_channel[i] IN
      IF o.fail_at = i /\ o.fail_kind = "request_irq"
      THEN [st EXCEPT !.rc = -16,
                      !.goto = "fail2",
                      !.trace = Append(@, [call |-> "request_irq", ch |-> ch,
                                           ok |-> FALSE])]
      ELSE
        LET st1 == [st EXCEPT !.n_irqs = @ + 1,
                              !.hooked = Append(@, ch),
                              !.trace = Append(@, [call |-> "request_irq",
                                                   ch |-> ch, ok |-> TRUE])]
        IN
        IF RmapChannel(ch)
        THEN IF o.fail_at = i /\ o.fail_kind = "irq_cpu_rmap_add"
             THEN [st1 EXCEPT !.rc = -12,
                              !.goto = "fail2",
                              !.trace = Append(@, [call |-> "irq_cpu_rmap_add",
                                                   ch |-> ch, ok |-> FALSE])]
             ELSE HookLoop(i + 1,
                           [st1 EXCEPT !.added = @ \cup {ch},
                                       !.trace = Append(@,
                                           [call |-> "irq_cpu_rmap_add",
                                            ch |-> ch, ok |-> TRUE])],
                           o)
        ELSE HookLoop(i + 1, st1, o)

\* lines 166-170: the vectors released at fail2, in release order: the walk
\* over the channels stops once n_irqs of them have been released.
\* (variants: a reverse walk; a walk that stops one vector early)
Fail2FreesReversed(n_irqs, order) == Reverse(SubSeq(order, 1, n_irqs))
Fail2FreesOneShort(n_irqs, order) == SubSeq(order, 1, n_irqs - 1)
Fail2Frees(n_irqs, order) == SubSeq(order, 1, n_irqs)

\* lines 191-193: the vectors released by fini in message-signaled mode
\* (variant: only the vectors that have a handler)
FiniFreesHookedOnly(order) ==
    LET Pick[i \in 0..Len(order)] ==
            IF i = 0 THEN <<>>
            ELSE IF order[i] \in irq_hooked THEN Append(Pick[i - 1], order[i])
                 ELSE Pick[i - 1]
    IN  Pick[Len(order)]
FiniFrees(order) == order

\* free_irq(channel->irq, ...) calls for the channels in q, recording whether
\* a handler was hooked on the vector when it was released.
FreeIrqCalls(q, hooked) ==
    [i \in 1..Len(q) |-> [call |-> "free_irq", ch |-> q[i],
                          ok |-> q[i] \in hooked]]

Held == [hooked |-> irq_hooked, legacy |-> legacy_hooked,
         rmap |-> rx_cpu_rmap, objs |-> rmap_objs]

\* The device is initialized: the last init succeeded and no fini followed.
IrqInitialized == irq_op = "init" /\ irq_rc = 0

\* lines 100-173
efx_nic_init_interrupt ==
    /\ irq_ops < MaxIrqOps
    /\ ~IrqInitialized
    /\ irq_op' = "init"
    /\ irq_pre' = Held
    /\ irq_ops' = irq_ops + 1
    /\ UNCHANGED <<CONFIG_RFS_ACCEL, interrupt_mode, n_channels, n_rx_channels>>
    /\ IF ~EFX_INT_MODE_USE_MSI
       THEN \* lines 107-118
            \E ok \in BOOLEAN :
              /\ irq_rc' = IF ok THEN 0 ELSE -16
              /\ legacy_hooked' = (legacy_hooked \/ ok)
              /\ irq_trace' = <<[call |-> "request_irq", ch |-> -1, ok |-> ok]>>
              /\ UNCHANGED <<irq_hooked, rmap_objs, rmap_irqs, rx_cpu_rmap>>
       ELSE
         \E o \in InitOutcomes :
           IF ~o.alloc_ok
           THEN \* lines 121-127: goto fail1
                /\ irq_rc' = -12
                /\ irq_trace' = <<[call |-> "alloc_irq_cpu_rmap", ch |-> -1,
                                   ok |-> FALSE]>>
                /\ UNCHANGED <<irq_hooked, legacy_hooked, rmap_objs, rmap_irqs,
                               rx_cpu_rmap>>
           ELSE
             LET t0 == IF UsesRmap
                       THEN <<[call |-> "alloc_irq_cpu_rmap", ch |-> -1,
                               ok |-> TRUE]>>
                       ELSE <<>>
                 st == HookLoop(1, [n_irqs |-> 0, hooked |-> <<>>,
                                    added |-> {}, trace |-> t0, rc |-> 0,
                                    goto |-> "return"], o)
                 after == irq_hooked \cup Range(st.hooked)
             IN
             IF st.goto = "return"
             THEN \* lines 153-160
                  /\ irq_rc' = 0
                  /\ irq_hooked' = after
                  /\ rmap_irqs' = st.added
                  /\ rmap_objs' = IF UsesRmap THEN rmap_objs + 1 ELSE rmap_objs
                  /\ rx_cpu_rmap' = IF CONFIG_RFS_ACCEL THEN UsesRmap
                                    ELSE rx_cpu_rmap
                  /\ irq_trace' = st.trace
                  /\ UNCHANGED legacy_hooked
             ELSE \* lines 162-172: fail2, fail1
                  LET frees == Fail2Frees(st.n_irqs, efx_for_each_channel)
                      t1 == IF CONFIG_RFS_ACCEL
                            THEN Append(st.trace,
                                        [call |-> "free_irq_cpu_rmap",
                                         ch |-> -1, ok |-> UsesRmap])
                            ELSE st.trace
                  IN  /\ irq_rc' = st.rc
                      /\ irq_hooked' = after \ Range(frees)
                      /\ irq_trace' = t1 \o FreeIrqCalls(frees, after)
                      /\ UNCHANGED <<legacy_hooked, rmap_objs, rmap_irqs,
                                     rx_cpu_rmap>>

\* lines 175-198
efx_nic_fini_interrupt ==
    /\ irq_ops < MaxIrqOps
    /\ irq_op' = "fini"
    /\ irq_pre' = Held
    /\ irq_ops' = irq_ops + 1
    /\ irq_rc' = 0
    /\ UNCHANGED <<CONFIG_RFS_ACCEL, interrupt_mode, n_channels, n_rx_channels>>
    /\ LET t0 == IF CONFIG_RFS_ACCEL
                 THEN <<[call |-> "free_irq_cpu_rmap", ch |-> -1,
                         ok |-> rx_cpu_rmap]>>
                 ELSE <<>>
       IN
       /\ IF CONFIG_RFS_ACCEL
          THEN /\ rmap_objs' = IF rx_cpu_rmap THEN rmap_objs - 1 ELSE rmap_objs
               /\ rmap_irqs' = IF rx_cpu_rmap THEN {} ELSE rmap_irqs
               /\ rx_cpu_rmap' = FALSE
          ELSE UNCHANGED <<rmap_objs, rmap_irqs, rx_cpu_rmap>>
       /\ IF EFX_INT_MODE_USE_MSI
          THEN LET frees == FiniFrees(efx_for_each_channel)
               IN  /\ irq_hooked' = irq_hooked \ Range(frees)
                   /\ irq_trace' = t0 \o FreeIrqCalls(frees, irq_hooked)
                   /\ UNCHANGED legacy_hooked
          ELSE /\ legacy_hooked' = FALSE
               /\ irq_trace' = Append(t0, [call |-> "free_irq", ch |-> -1,
                                           ok |-> legacy_hooked])
               /\ UNCHANGED irq_hooked

IrqStart ==
    /\ irq_hooked = {}
    /\ legacy_hooked = FALSE
    /\ rmap_objs = 0
    /\ rmap_irqs = {}
    /\ rx_cpu_rmap = FALSE
    /\ irq_op = "none"
    /\ irq_rc = 0
    /\ irq_trace = <<>>
    /\ irq_pre = Held
    /\ irq_ops = 0

IrqInit ==
    /\ CONFIG_RFS_ACCEL \in BOOLEAN
    /\ interrupt_mode \in {"MSIX", "MSI", "LEGACY"}
    /\ n_channels \in 1..MaxChannels
    /\ n_rx_channels \in 1..n_channels
    /\ IrqStart

IrqIdle ==
    /\ CONFIG_RFS_ACCEL = FALSE
    /\ interrupt_mode = "LEGACY"
    /\ n_channels = 1
    /\ n_rx_channels = 1
    /\ IrqStart

IrqNext ==
    \/ efx_nic_init_interrupt /\ UNCHANGED <<nodescVars, regsVars, statVars>>
    \/ efx_nic_fini_interrupt /\ UNCHANGED <<nodescVars, regsVars, statVars>>

-----------------------------------------------------------------------------
(* Register dump: the catalogue, efx_nic_get_regs_len and efx_nic_get_regs   *)

\* lines 251-256
REGISTER_REVISION_FA == 1
REGISTER_REVISION_FB == 2
REGISTER_REVISION_FC == 3
REGISTER_REVISION_FZ == 3
REGISTER_REVISION_ED == 4
REGISTER_REVISION_EZ == 4

\* Revisions of the devices the dump is taken from.
Revisions == REGISTER_REVISION_FA..REGISTER_REVISION_EZ

\* lines 263-274.  The register offsets come from the register headers and
\* take no part in the layout of the dump; the name stands for them.
REGISTER(name, min_rev, max_rev) ==
    [name |-> name, min_revision |-> min_rev, max_revision |-> max_rev]
REGISTER_AA(name) == REGISTER(name, REGISTER_REVISION_FA, REGISTER_REVISION_FA)
REGISTER_AB(name) == REGISTER(name, REGISTER_REVISION_FA, REGISTER_REVISION_FB)
REGISTER_AZ(name) == REGISTER(name, REGISTER_REVISION_FA, REGISTER_REVISION_FZ)
REGISTER_BB(name) == REGISTER(name, REGISTER_REVISION_FB, REGISTER_REVISION_FB)
REGISTER_BZ(name) == REGISTER(name, REGISTER_REVISION_FB, REGISTER_REVISION_FZ)
REGISTER_CZ(name) == REGISTER(name, REGISTER_REVISION_FC, REGISTER_REVISION_FZ)
REGISTER_DZ(name) == REGISTER(name, REGISTER_REVISION_ED, REGISTER_REVISION_EZ)

\* lines 276-384
efx_nic_regs == <<
    REGISTER_AZ("ADR_REGION"),
    REGISTER_AZ("INT_EN_KER"),
    REGISTER_BZ("INT_EN_CHAR"),
    REGISTER_AZ("INT_ADR_KER"),
    REGISTER_BZ("INT_ADR_CHAR"),
    REGISTER_AZ("HW_INIT"),
    REGISTER_CZ("USR_EV_CFG"),
    REGISTER_AB("EE_SPI_HCMD"),
    REGISTER_AB("EE_SPI_HADR"),
    REGISTER_AB("EE_SPI_HDATA"),
    REGISTER_AB("EE_BASE_PAGE"),
    REGISTER_AB("EE_VPD_CFG0"),
    REGISTER_AB("NIC_STAT"),
    REGISTER_AB("GPIO_CTL"),
    REGISTER_AB("GLB_CTL"),
    REGISTER_BZ("DP_CTRL"),
    REGISTER_AZ("MEM_STAT"),
    REGISTER_AZ("CS_DEBUG"),
    REGISTER_AZ("ALTERA_BUILD"),
    REGISTER_AZ("CSR_SPARE"),
    REGISTER_AB("PCIE_SD_CTL0123"),
    REGISTER_AB("PCIE_SD_CTL45"),
    REGISTER_AB("PCIE_PCS_CTL_STAT"),
    REGISTER_AZ("EVQ_CTL"),
    REGISTER_AZ("EVQ_CNT1"),
    REGISTER_AZ("EVQ_CNT2"),
    REGISTER_AZ("BUF_TBL_CFG"),
    REGISTER_AZ("SRM_RX_DC_CFG"),
    REGISTER_AZ("SRM_TX_DC_CFG"),
    REGISTER_AZ("SRM_CFG"),
    REGISTER_AZ("SRM_UPD_EVQ"),
    REGISTER_AZ("SRAM_PARITY"),
    REGISTER_AZ("RX_CFG"),
    REGISTER_BZ("RX_FILTER_CTL"),
    REGISTER_AZ("RX_DC_CFG"),
    REGISTER_AZ("RX_DC_PF_WM"),
    REGISTER_BZ("RX_RSS_TKEY"),
    REGISTER_AA("RX_SELF_RST"),
    REGISTER_CZ("RX_RSS_IPV6_REG1"),
    REGISTER_CZ("RX_RSS_IPV6_REG2"),
    REGISTER_CZ("RX_RSS_IPV6_REG3"),
    REGISTER_AZ("TX_DC_CFG"),
    REGISTER_AA("TX_CHKSM_CFG"),
    REGISTER_AZ("TX_CFG"),
    REGISTER_AZ("TX_RESERVED"),
    REGISTER_BZ("TX_PACE"),
    REGISTER_BB("TX_VLAN"),
    REGISTER_BZ("TX_IPFIL_PORTEN"),
    REGISTER_AB("MD_TXD"),
    REGISTER_AB("MD_RXD"),
    REGISTER_AB("MD_CS"),
    REGISTER_AB("MD_PHY_ADR"),
    REGISTER_AB("MD_ID"),
    REGISTER_AB("MAC_STAT_DMA"),
    REGISTER_AB("MAC_CTRL"),
    REGISTER_BB("GEN_MODE"),
    REGISTER_AB("MAC_MC_HASH_REG0"),
    REGISTER_AB("MAC_MC_HASH_REG1"),
    REGISTER_AB("GM_CFG1"),
    REGISTER_AB("GM_CFG2"),
    REGISTER_AB("GM_MAX_FLEN"),
    REGISTER_AB("GM_ADR1"),
    REGISTER_AB("GM_ADR2"),
    REGISTER_AB("GMF_CFG0"),
    REGISTER_AB("GMF_CFG1"),
    REGISTER_AB("GMF_CFG2"),
    REGISTER_AB("GMF_CFG3"),
    REGISTER_AB("GMF_CFG4"),
    REGISTER_AB("GMF_CFG5"),
    REGISTER_BB("TX_SRC_MAC_CTL"),
    REGISTER_AB("XM_ADR_LO"),
    REGISTER_AB("XM_ADR_HI"),
    REGISTER_AB("XM_GLB_CFG"),
    REGISTER_AB("XM_TX_CFG"),
    REGISTER_AB("XM_RX_CFG"),
    REGISTER_AB("XM_MGT_INT_MASK"),
    REGISTER_AB("XM_FC"),
    REGISTER_AB("XM_PAUSE_TIME"),
    REGISTER_AB("XM_TX_PARAM"),
    REGISTER_AB("XM_RX_PARAM"),
    REGISTER_AB("XX_PWR_RST"),
    REGISTER_AB("XX_SD_CTL"),
    REGISTER_AB("XX_TXDRV_CTL"),
    REGISTER_DZ("BIU_HW_REV_ID"),
    REGISTER_DZ("MC_DB_LWRD"),
    REGISTER_DZ("MC_DB_HWRD")
>>

\* Largest *_ROWS value the headers are given.
MaxRows == 2

\* The element widths a table may have (lines 503-516).
StepValues == <<4, 8, 16, 32>>

\* The *_STEP and *_ROWS constants of the tables are defined in the register
\* headers.  A header assignment h = <<step_sel, rows_sel>> gives the k-th
\* *_STEP constant the value HdrStep(h, k) and the k-th *_ROWS constant the
\* value HdrRows(h, k); over all assignments every constant takes each step
\* and each row count.
HeaderAssignments == (0..3) \X (0..(MaxRows - 1))
HdrStep(h, k) == StepValues[((k + h[1]) % 4) + 1]
HdrRows(h, k) == ((k + h[2]) % MaxRows) + 1

\* lines 392-397
REGISTER_TABLE_DIMENSIONS(name, min_rev, max_rev, step, rows) ==
    [name |-> name, min_revision |-> min_rev, max_revision |-> max_rev,
     step |-> step, rows |-> rows]
\* lines 398-416; s and r number the *_STEP and *_ROWS constants used
REGISTER_TABLE_AA(h, name, s, r) ==
    <<REGISTER_TABLE_DIMENSIONS(name, REGISTER_REVISION_FA,
                                REGISTER_REVISION_FA, HdrStep(h, s),
                                HdrRows(h, r))>>
REGISTER_TABLE_BB(h, name, s, r) ==
    <<REGISTER_TABLE_DIMENSIONS(name, REGISTER_REVISION_FB,
                                REGISTER_REVISION_FB, HdrStep(h, s),
                                HdrRows(h, r))>>
REGISTER_TABLE_BZ(h, name, s, r) ==
    <<REGISTER_TABLE_DIMENSIONS(name, REGISTER_REVISION_FB,
                                REGISTER_REVISION_FZ, HdrStep(h, s),
                                HdrRows(h, r))>>
REGISTER_TABLE_CZ(h, name, s, r) ==
    <<REGISTER_TABLE_DIMENSIONS(name, REGISTER_REVISION_FC,
                                REGISTER_REVISION_FZ, HdrStep(h, s),
                                HdrRows(h, r))>>
REGISTER_TABLE_DZ(h, name, s, r) ==
    <<REGISTER_TABLE_DIMENSIONS(name, REGISTER_REVISION_ED,
                                REGISTER_REVISION_EZ, HdrStep(h, s),
                                HdrRows(h, r))>>
\* one *_STEP constant, two *_ROWS constants
REGISTER_TABLE_BB_CZ(h, name, s, rb, rc) ==
    <<REGISTER_TABLE_DIMENSIONS(name, REGISTER_REVISION_FB,
                                REGISTER_REVISION_FB, HdrStep(h, s),
                                HdrRows(h, rb)),
      REGISTER_TABLE_DIMENSIONS(name, REGISTER_REVISION_FC,
                                REGISTER_REVISION_FZ, HdrStep(h, s),
                                HdrRows(h, rc))>>

\* lines 433-436: rows read of the buffer table
BufFullTblRows == 1024

\* lines 418-450, for a header assignment h; RX_FILTER_TBL0 is compiled in
\* when !EFX_USE_KCOMPAT || EFX_HAVE_VMALLOC_REG_DUMP_BUF
efx_nic_reg_tables_def(h, have_vmalloc_dump) ==
    REGISTER_TABLE_BB(h, "TX_IPFIL_TBL", 1, 1) \o
    REGISTER_TABLE_BB(h, "TX_SRC_MAC_TBL", 2, 2) \o
    REGISTER_TABLE_AA(h, "RX_DESC_PTR_TBL_KER", 3, 3) \o
    REGISTER_TABLE_BB_CZ(h, "RX_DESC_PTR_TBL", 4, 4, 5) \o
    REGISTER_TABLE_AA(h, "TX_DESC_PTR_TBL_KER", 5, 6) \o
    REGISTER_TABLE_BB_CZ(h, "TX_DESC_PTR_TBL", 6, 7, 8) \o
    REGISTER_TABLE_AA(h, "EVQ_PTR_TBL_KER", 7, 9) \o
    REGISTER_TABLE_BB_CZ(h, "EVQ_PTR_TBL", 8, 10, 11) \o
    <<REGISTER_TABLE_DIMENSIONS("BUF_FULL_TBL_KER", REGISTER_REVISION_FA,
                                REGISTER_REVISION_FA, 8, BufFullTblRows),
      REGISTER_TABLE_DIMENSIONS("BUF_FULL_TBL", REGISTER_REVISION_FB,
                                REGISTER_REVISION_FZ, 8, BufFullTblRows)>> \o
    REGISTER_TABLE_CZ(h, "RX_MAC_FILTER_TBL0", 9, 12) \o
    REGISTER_TABLE_BB_CZ(h, "TIMER_TBL", 10, 13, 14) \o
    REGISTER_TABLE_BB_CZ(h, "TX_PACE_TBL", 11, 15, 16) \o
    REGISTER_TABLE_BZ(h, "RX_INDIRECTION_TBL", 12, 17) \o
    REGISTER_TABLE_CZ(h, "TX_MAC_FILTER_TBL0", 13, 18) \o
    REGISTER_TABLE_CZ(h, "MC_TREG_SMEM", 14, 19) \o
    (IF have_vmalloc_dump
     THEN REGISTER_TABLE_BZ(h, "RX_FILTER_TBL0", 15, 20)
     ELSE <<>>) \o
    REGISTER_TABLE_DZ(h, "BIU_MC_SFT_STATUS", 16, 21)

\* sizeof(efx_oword_t)
OwordBytes == 16

Min(a, b) == IF a < b THEN a ELSE b

\* lines 461-462, 468-469: the revision filter of the length pass
LenApplies(rev, d) == rev >= d.min_revision /\ rev <= d.max_revision

\* line 470: bytes counted per row of a table
\* (variant: the row size is not capped at 16)
LenRowBytesUncapped(step) == step
LenRowBytes(step) == Min(step, 16)

\* lines 452-473: the sum, entry by entry, as the two loops run
RECURSIVE LenOfRegs(_, _)
LenOfRegs(rev, i) ==
    IF i > Len(efx_nic_regs) THEN 0
    ELSE (IF LenApplies(rev, efx_nic_regs[i]) THEN OwordBytes ELSE 0)
         + LenOfRegs(rev, i + 1)

RECURSIVE LenOfTables(_, _)
LenOfTables(rev, i) ==
    IF i > Len(reg_tables) THEN 0
    ELSE (IF LenApplies(rev, reg_tables[i])
          THEN reg_tables[i].rows
               * LenRowBytes(reg_tables[i].step)
          ELSE 0)
         + LenOfTables(rev, i + 1)

efx_nic_get_regs_len ==
    /\ regs_len = -1
    /\ regs_len' = LenOfRegs(revision, 1) + LenOfTables(revision, 1)
    /\ UNCHANGED <<revision, reg_tables, dump_pc, dump_i, dump_row, buf,
                   hi_water, bytes_written, last_read>>

\* lines 483-484, 495-496: the revision filter of the extraction pass
DumpApplies(rev, d) == rev >= d.min_revision /\ rev <= d.max_revision

\* line 499: size = min_t(size_t, table->step, 16)
DumpRowBytes(step) == Min(step, 16)

\* lines 502-516: the read issued for row i of a table of the given step
TableReadFn(step) ==
    CASE step = 4  -> "efx_readd"
      [] step = 8  -> "efx_sram_readq"
      [] step = 16 -> "efx_reado_table"
      [] step = 32 -> "efx_reado_table"
      [] OTHER     -> "WARN_ON"

\* lines 504, 509, 512, 515: the index (for efx_readd, the byte offset from
\* the table's base) the read is issued at
\* (variant: step 32 read at index i)
TableReadIndexNotInterleaved(step, i) == IF step = 4 THEN 4 * i ELSE i
TableReadIndex(step, i) ==
    CASE step = 4  -> 4 * i
      [] step = 8  -> i
      [] step = 16 -> i
      [] step = 32 -> 2 * i
      [] OTHER     -> 0

\* bytes the read stores at the cursor: a dword, a qword or an oword
TableReadBytes(step) ==
    CASE step = 4  -> 4
      [] step = 8  -> 8
      [] step = 16 -> 16
      [] step = 32 -> 16
      [] OTHER     -> 0

NoRead == [fn |-> "none", name |-> "", step |-> 0, row |-> 0, index |-> 0,
           at |-> 0, advance |-> 0]

RegsConfig == UNCHANGED <<revision, reg_tables, regs_len>>

\* The caller allocates regs_len bytes and calls efx_nic_get_regs.
DumpEnter ==
    /\ dump_pc = "idle"
    /\ regs_len # -1
    /\ dump_pc' = "regs"
    /\ dump_i' = 1
    /\ UNCHANGED <<dump_row, buf, hi_water, bytes_written, last_read>>
    /\ RegsConfig

\* lines 480-488: one iteration of the register loop
DumpReg ==
    /\ dump_pc = "regs"
    /\ dump_i <= Len(efx_nic_regs)
    /\ IF DumpApplies(revision, efx_nic_regs[dump_i])
       THEN /\ last_read' = [fn |-> "efx_reado",
                             name |-> efx_nic_regs[dump_i].name,
                             step |-> 0, row |-> 0, index |-> 0, at |-> buf,
                             advance |-> OwordBytes]
            /\ hi_water' = IF buf + OwordBytes > hi_water
                           THEN buf + OwordBytes ELSE hi_water
            /\ bytes_written' = bytes_written + OwordBytes
            /\ buf' = buf + OwordBytes
       ELSE UNCHANGED <<last_read, hi_water, bytes_written, buf>>
    /\ dump_i' = dump_i + 1
    /\ UNCHANGED <<dump_pc, dump_row>>
    /\ RegsConfig

\* line 481 false, line 490: the register loop ends, the table loop begins
DumpRegsDone ==
    /\ dump_pc = "regs"
    /\ dump_i > Len(efx_nic_regs)
    /\ dump_pc' = "tables"
    /\ dump_i' = 1
    /\ dump_row' = 0
    /\ UNCHANGED <<buf, hi_water, bytes_written, last_read>>
    /\ RegsConfig

\* lines 495-497: continue
DumpTableSkip ==
    /\ dump_pc = "tables"
    /\ dump_i <= Len(reg_tables)
    /\ ~DumpApplies(revision, reg_tables[dump_i])
    /\ dump_i' = dump_i + 1
    /\ dump_row' = 0
    /\ UNCHANGED <<dump_pc, buf, hi_water, bytes_written, last_read>>
    /\ RegsConfig

\* lines 501-522: one iteration of the row loop
DumpTableRow ==
    /\ dump_pc = "tables"
    /\ dump_i <= Len(reg_tables)
    /\ LET table == reg_tables[dump_i]
           size  == DumpRowBytes(table.step)
           n     == TableReadBytes(table.step)
       IN  /\ DumpApplies(revision, table)
           /\ dump_row < table.rows
           /\ IF TableReadFn(table.step) = "WARN_ON"
              THEN \* lines 517-519: return
                   /\ dump_pc' = "done"
                   /\ UNCHANGED <<dump_i, dump_row, buf, hi_water,
                                  bytes_written, last_read>>
              ELSE /\ last_read' = [fn |-> TableReadFn(table.step),
                                    name |-> table.name,
                                    step |-> table.step, row |-> dump_row,
                                    index |-> TableReadIndex(table.step,
                                                             dump_row),
                                    at |-> buf, advance |-> size]
                   /\ hi_water' = IF buf + n > hi_water THEN buf + n
                                  ELSE hi_water
                   /\ bytes_written' = bytes_written + n
                   /\ buf' = buf + size
                   /\ dump_row' = dump_row + 1
                   /\ UNCHANGED <<dump_pc, dump_i>>
    /\ RegsConfig

\* line 501 false: the row loop ends
DumpTableDone ==
    /\ dump_pc = "tables"
    /\ dump_i <= Len(reg_tables)
    /\ DumpApplies(revision, reg_tables[dump_i])
    /\ dump_row >= reg_tables[dump_i].rows
    /\ dump_i' = dump_i + 1
    /\ dump_row' = 0
    /\ UNCHANGED <<dump_pc, buf, hi_water, bytes_written, last_read>>
    /\ RegsConfig

\* line 491 false, line 524: efx_nic_get_regs returns
DumpReturn ==
    /\ dump_pc = "tables"
    /\ dump_i > Len(reg_tables)
    /\ dump_pc' = "done"
    /\ UNCHANGED <<dump_i, dump_row, buf, hi_water, bytes_written, last_read>>
    /\ RegsConfig

RegsStart ==
    /\ regs_len = -1
    /\ dump_pc = "idle"
    /\ dump_i = 1
    /\ dump_row = 0
    /\ buf = 0
    /\ hi_water = 0
    /\ bytes_written = 0
    /\ last_read = NoRead

RegsInit ==
    /\ revision \in Revisions
    /\ reg_tables \in {efx_nic_reg_tables_def(h, v) :
                          h \in HeaderAssignments, v \in BOOLEAN}
    /\ RegsStart

RegsIdle ==
    /\ revision = REGISTER_REVISION_FA
    /\ reg_tables = efx_nic_reg_tables_def(<<0, 0>>, TRUE)
    /\ RegsStart

RegsNext ==
    \/ efx_nic_get_regs_len /\ UNCHANGED <<nodescVars, irqVars, statVars>>
    \/ DumpEnter /\ UNCHANGED <<nodescVars, irqVars, statVars>>
    \/ DumpReg /\ UNCHANGED <<nodescVars, irqVars, statVars>>
    \/ DumpRegsDone /\ UNCHANGED <<nodescVars, irqVars, statVars>>
    \/ DumpTableSkip /\ UNCHANGED <<nodescVars, irqVars, statVars>>
    \/ DumpTableRow /\ UNCHANGED <<nodescVars, irqVars, statVars>>
    \/ DumpTableDone /\ UNCHANGED <<nodescVars, irqVars, statVars>>
    \/ DumpReturn /\ UNCHANGED <<nodescVars, irqVars, statVars>>

-----------------------------------------------------------------------------
(* Statistics: efx_nic_describe_stats and efx_nic_update_stats               *)

\* Length of the descriptor array explored.
MaxStats == 3

\* Number of update calls explored.
MaxUpdates == 2

\* line 547: the stride of the names buffer
ETH_GSTRING_LEN == 32

\* A name pointer: NULL, or a string of character codes.
NullName == [null |-> TRUE, chars |-> <<>>]
Name(chars) == [null |-> FALSE, chars |-> chars]

\* The name of descriptor i when it has one: distinct per index, and for
\* index 1 as long as a names slot can hold with its terminator.
NameChars(i) ==
    [j \in 1..(IF i = 1 THEN ETH_GSTRING_LEN - 1 ELSE 2 + i) |->
        97 + ((7 * i + j) % 26)]

\* The DMA widths a descriptor may carry; 8 is not a supported width.
DmaWidths == <<0, 16, 32, 64, 8>>

\* Descriptor arrays: named selects the indices that have a name, w_sel the
\* assignment of widths to indices (over all w_sel every index takes each
\* width); the field of index i lies at byte offset 2 * i.
DescArray(named, w_sel) ==
    [k \in 1..MaxStats |->
        [name      |-> IF (k - 1) \in named THEN Name(NameChars(k - 1))
                       ELSE NullName,
         dma_width |-> DmaWidths[((k - 1 + w_sel) % Len(DmaWidths)) + 1],
         offset    |-> 2 * (k - 1)]]

\* desc[index], mask bit index
Desc(index) == stat_desc[index + 1]

\* lines 543, 577: for_each_set_bit(index, mask, count) visits the set bits
\* among the first count bits
BitVisited(index) == index < stat_count /\ index \in stat_mask

\* DMA snapshots: byte strings long enough for every field.
SnapLen == 2 * MaxStats + 8
Snapshots ==
    { [j \in 1..SnapLen |-> (37 * j + 11) % 256],
      [j \in 1..SnapLen |-> 255 - (j % 3)] }

\* lines 584, 587, 590: the little-endian field at byte offset off of the
\* snapshot, widened to u64
Le16At(dma, off) == dma[off + 1] + 256 * dma[off + 2]
\* (variant of le16_to_cpup: the two bytes swapped)
le16_to_cpup_swapped(dma, off) ==
    <<dma[off + 2] + 256 * dma[off + 1], 0, 0, 0>>
le16_to_cpup(dma, off) == <<Le16At(dma, off), 0, 0, 0>>
le32_to_cpup(dma, off) == <<Le16At(dma, off), Le16At(dma, off + 2), 0, 0>>
le64_to_cpup(dma, off) == <<Le16At(dma, off), Le16At(dma, off + 2),
                            Le16At(dma, off + 4), Le16At(dma, off + 6)>>

\* lines 582-596
StatValue(d, dma) ==
    CASE d.dma_width = 16 -> le16_to_cpup(dma, d.offset)
      [] d.dma_width = 32 -> le32_to_cpup(dma, d.offset)
      [] d.dma_width = 64 -> le64_to_cpup(dma, d.offset)
      [] OTHER            -> U64Zero

\* lines 598-601
StatStore(accumulate, old, val) ==
    IF accumulate THEN AddU64(old, val) ELSE val

\* lines 571-604
efx_nic_update_stats(dma, accumulate) ==
    /\ Len(upd_log) < MaxUpdates
    /\ stats' = [k \in 1..MaxStats |->
                    IF BitVisited(k - 1) /\ Desc(k - 1).dma_width # 0
                    THEN StatStore(accumulate, stats[k],
                                   StatValue(Desc(k - 1), dma))
                    ELSE stats[k]]
    /\ upd_log' = Append(upd_log, [dma |-> dma, accumulate |-> accumulate,
                                   before |-> stats])
    /\ UNCHANGED <<stat_desc, stat_count, stat_mask, names_given, names_buf,
                   visible>>

UpdateStats ==
    \E dma \in Snapshots : \E accumulate \in BOOLEAN :
        efx_nic_update_stats(dma, accumulate)

\* line 546: strlcpy(names, src, size) into the buffer at position pos
strlcpy(b, pos, src, size) ==
    LET n == Min(Len(src), size - 1)
    IN  [j \in 1..Len(b) |->
            IF j > pos /\ j <= pos + n THEN src[j - pos]
            ELSE IF j = pos + n + 1 THEN 0
            ELSE b[j]]

\* line 544: the statistic has a name
\* (variant: every enabled statistic counts)
StatNamedAlways(d) == TRUE
StatNamed(d) == ~d.name.null

\* lines 543-552: the loop from bit index on; st carries names (as a
\* position), the buffer and visible.
RECURSIVE DescribeLoop(_, _, _)
DescribeLoop(index, given, st) ==
    IF index >= stat_count
    THEN st
    ELSE IF BitVisited(index) /\ StatNamed(Desc(index))
         THEN DescribeLoop(index + 1, given,
                  [names   |-> IF given THEN st.names + ETH_GSTRING_LEN
                               ELSE st.names,
                   b       |-> IF given
                               THEN strlcpy(st.b, st.names,
                                            Desc(index).name.chars,
                                            ETH_GSTRING_LEN)
                               ELSE st.b,
                   visible |-> st.visible + 1])
         ELSE DescribeLoop(index + 1, given, st)

\* The names buffer before it is filled: no byte of it is a terminator.
FreshNames == [j \in 1..(MaxStats * ETH_GSTRING_LEN) |-> 170]

\* lines 537-555
efx_nic_describe_stats(given) ==
    LET st == DescribeLoop(0, given,
                           [names |-> 0, b |-> FreshNames, visible |-> 0])
    IN  /\ visible = -1
        /\ visible' = st.visible
        /\ names_given' = given
        /\ names_buf' = st.b
        /\ UNCHANGED <<stat_desc, stat_count, stat_mask, stats, upd_log>>

DescribeStats == \E given \in BOOLEAN : efx_nic_describe_stats(given)

\* The counters before the first update: small, zero, and one at the top of
\* the u64 range.
StatsBefore ==
    [k \in 1..MaxStats |->
        CASE k % 3 = 1 -> <<5, 0, 0, 0>>
          [] k % 3 = 2 -> <<65535, 65535, 65535, 65535>>
          [] OTHER     -> U64Zero]

StatStart ==
    /\ stats = StatsBefore
    /\ upd_log = <<>>
    /\ names_given = FALSE
    /\ names_buf = FreshNames
    /\ visible = -1

StatUpdateInit ==
    /\ stat_desc \in {DescArray({0, 2}, w) : w \in 0..(Len(DmaWidths) - 1)}
    /\ stat_count \in 1..MaxStats
    /\ stat_mask \in SUBSET (0..(MaxStats - 1))
    /\ StatStart

StatDescribeInit ==
    /\ stat_desc \in {DescArray(named, 0) : named \in SUBSET (0..(MaxStats - 1))}
    /\ stat_count \in 0..MaxStats
    /\ stat_mask \in SUBSET (0..(MaxStats - 1))
    /\ StatStart

StatIdle ==
    /\ stat_desc = DescArray({}, 0)
    /\ stat_count = 0
    /\ stat_mask = {}
    /\ StatStart

StatUpdateNext == UpdateStats /\ UNCHANGED <<nodescVars, irqVars, regsVars>>

StatDescribeNext == DescribeStats /\ UNCHANGED <<nodescVars, irqVars, regsVars>>

-----------------------------------------------------------------------------
(* Specifications, one per component                                         *)

InitNodesc == NodescInit /\ IrqIdle /\ RegsIdle /\ StatIdle
SpecNodesc == InitNodesc /\ [][NodescNext]_vars

InitIrq == IrqInit /\ NodescIdle /\ RegsIdle /\ StatIdle
SpecIrq == InitIrq /\ [][IrqNext]_vars

InitRegs == RegsInit /\ NodescIdle /\ IrqIdle /\ StatIdle
SpecRegs == InitRegs /\ [][RegsNext]_vars

InitStatsUpdate == StatUpdateInit /\ NodescIdle /\ IrqIdle /\ RegsIdle
SpecStatsUpdate == InitStatsUpdate /\ [][StatUpdateNext]_vars

InitStatsDescribe == StatDescribeInit /\ NodescIdle /\ IrqIdle /\ RegsIdle
SpecStatsDescribe == InitStatsDescribe /\ [][StatDescribeNext]_vars

-----------------------------------------------------------------------------
(* Properties of efx_nic_fix_nodesc_drop_stat                                *)

\* Calls i+1..j were all made with the link down.
DownRun(i, j) == \A k \in (i + 1)..j : ~nodesc_log[k].up

\* C4: across any run of consecutive calls made while the link is down (raw
\* counter non-decreasing), the corrected value handed back stays equal to
\* the corrected value of the last call made before the run, however much
\* the raw counter grows.
C4_FrozenWhileDown ==
    \A i \in 1..Len(nodesc_log) : \A j \in (i + 1)..Len(nodesc_log) :
        DownRun(i, j) => nodesc_log[j].corrected = nodesc_log[i].corrected

\* A link-up call followed by two link-down calls over a growing raw counter.
C4_Witness ==
    \E i \in 1..Len(nodesc_log) :
        /\ i + 2 <= Len(nodesc_log)
        /\ nodesc_log[i].up
        /\ nodesc_log[i].prev
        /\ DownRun(i, i + 2)
        /\ nodesc_log[i].corrected # U64Zero
        /\ nodesc_log[i + 1].raw # nodesc_log[i].raw
        /\ nodesc_log[i + 2].raw # nodesc_log[i + 1].raw

\* The only call so far was made from the initial correction state with the
\* link up.
FirstCallUp == Len(nodesc_log) = 1 /\ nodesc_log[1].up

\* C5 as stated: from (total = 0, while_down = 0, prev_state = false), one
\* call with the link up and raw counter r returns r and leaves
\* (total = r, while_down = 0, prev_state = true).
C5_Original ==
    FirstCallUp =>
        /\ nodesc_log[1].corrected = nodesc_log[1].raw
        /\ rx_nodesc_drops_total = nodesc_log[1].raw
        /\ rx_nodesc_drops_while_down = U64Zero
        /\ rx_nodesc_drops_prev_state = TRUE

\* C5 amended: from (total = 0, while_down = 0, prev_state = false), one call
\* with the link up and raw counter r is the first update after coming up,
\* so r is folded into while_down: it returns 0 and leaves
\* (total = r, while_down = r, prev_state = true).
C5_FirstCallFolds ==
    FirstCallUp =>
        /\ nodesc_log[1].corrected = U64Zero
        /\ rx_nodesc_drops_total = nodesc_log[1].raw
        /\ rx_nodesc_drops_while_down = nodesc_log[1].raw
        /\ rx_nodesc_drops_prev_state = TRUE

\* The first call, link up, raw = 100.
C5_Witness ==
    /\ FirstCallUp
    /\ nodesc_log[1].raw = <<100, 0, 0, 0>>
    /\ ~nodesc_log[1].prev

\* C10: over serial calls with a non-decreasing raw counter and arbitrary
\* link changes between calls, the corrected value never decreases from one
\* call to the next, and after every call it equals
\* rx_nodesc_drops_total - rx_nodesc_drops_while_down with
\* rx_nodesc_drops_while_down <= rx_nodesc_drops_total (no underflow).
C10_MonotoneCorrected ==
    /\ \A j \in 2..Len(nodesc_log) :
           LeU64(nodesc_log[j - 1].corrected, nodesc_log[j].corrected)
    /\ Len(nodesc_log) > 0 =>
           /\ LeU64(rx_nodesc_drops_while_down, rx_nodesc_drops_total)
           /\ nodesc_log[Len(nodesc_log)].corrected =
                  SubU64(rx_nodesc_drops_total, rx_nodesc_drops_while_down)

\* Down, up, up, down over a strictly growing raw counter: the corrected
\* value has moved and the while-down total is non-zero.
C10_Witness ==
    /\ Len(nodesc_log) >= 4
    /\ ~nodesc_log[1].up
    /\ nodesc_log[2].up
    /\ nodesc_log[3].up
    /\ ~nodesc_log[4].up
    /\ \A j \in 2..4 : nodesc_log[j].raw # nodesc_log[j - 1].raw
    /\ nodesc_log[3].corrected # nodesc_log[2].corrected
    /\ rx_nodesc_drops_while_down # U64Zero

-----------------------------------------------------------------------------
(* Properties of efx_nic_init_interrupt / efx_nic_fini_interrupt             *)

\* Channels of the calls of the given kind and result, in call order.
TraceChannels(call, ok) ==
    LET Pick[i \in 0..Len(irq_trace)] ==
            IF i = 0 THEN <<>>
            ELSE IF irq_trace[i].call = call /\ irq_trace[i].ok = ok
                 THEN Append(Pick[i - 1], irq_trace[i].ch)
                 ELSE Pick[i - 1]
    IN  Pick[Len(irq_trace)]

\* Every free_irq call of the trace, whatever the state of its vector.
FreeIrqOrder ==
    LET Pick[i \in 0..Len(irq_trace)] ==
            IF i = 0 THEN <<>>
            ELSE IF irq_trace[i].call = "free_irq"
                 THEN Append(Pick[i - 1], irq_trace[i].ch)
                 ELSE Pick[i - 1]
    IN  Pick[Len(irq_trace)]

TraceHas(call, ok) ==
    \E i \in 1..Len(irq_trace) :
        irq_trace[i].call = call /\ irq_trace[i].ok = ok

\* The last operation was an init that failed in message-signaled mode.
FailedMsiInit == irq_op = "init" /\ irq_rc # 0 /\ EFX_INT_MODE_USE_MSI

\* C2: if efx_nic_init_interrupt fails in message-signaled mode, then when
\* it returns the error every vector bound during the call has been released
\* and the affinity map allocated during the call has been freed: nothing is
\* left live.
C2_FailedInitLeavesNothing ==
    FailedMsiInit =>
        /\ irq_hooked = {}
        /\ Range(TraceChannels("request_irq", TRUE)) \subseteq
               Range(TraceChannels("free_irq", TRUE))
        /\ rmap_objs = irq_pre.objs
        /\ ~rx_cpu_rmap
        /\ TraceHas("alloc_irq_cpu_rmap", TRUE) =>
               TraceHas("free_irq_cpu_rmap", TRUE)

\* A failure of irq_cpu_rmap_add after at least two vectors were bound and a
\* map was allocated.
C2_Witness ==
    /\ FailedMsiInit
    /\ TraceHas("alloc_irq_cpu_rmap", TRUE)
    /\ TraceHas("irq_cpu_rmap_add", FALSE)
    /\ Len(TraceChannels("request_irq", TRUE)) >= 2

\* The last operation was a fini begun with no vector bound and no map held.
FiniOnNothing ==
    /\ irq_op = "fini"
    /\ irq_pre.hooked = {}
    /\ ~irq_pre.legacy
    /\ ~irq_pre.rmap

\* C3 as stated: on a device with no vector bound and no affinity map held,
\* efx_nic_fini_interrupt releases nothing: it is a no-op on the absent
\* resources, in message-signaled and in legacy mode.
C3_Original ==
    FiniOnNothing =>
        /\ FreeIrqOrder = <<>>
        /\ ~TraceHas("free_irq_cpu_rmap", TRUE)

\* C3 amended: on a device with no vector bound and no affinity map held,
\* efx_nic_fini_interrupt frees no affinity map and leaves nothing bound, but
\* it is not a no-op: it still calls free_irq on the vector of every channel
\* (message-signaled mode) or on the legacy vector (legacy mode), none of
\* which has a handler.
C3_FiniFreesUnconditionally ==
    FiniOnNothing =>
        /\ ~TraceHas("free_irq_cpu_rmap", TRUE)
        /\ ~TraceHas("free_irq", TRUE)
        /\ FreeIrqOrder = IF EFX_INT_MODE_USE_MSI THEN efx_for_each_channel
                          ELSE <<-1>>
        /\ irq_hooked = {} /\ ~legacy_hooked /\ ~rx_cpu_rmap
        /\ rmap_objs = irq_pre.objs

\* fini as the very first operation of a three-channel MSI-X device.
C3_Witness ==
    /\ FiniOnNothing
    /\ irq_ops = 1
    /\ interrupt_mode = "MSIX"
    /\ n_channels = 3

\* C8 as stated: when init fails in message-signaled mode after binding the
\* vectors of channels 0..k-1, the unwind releases them in reverse binding
\* order (channel k-1 first, channel 0 last).
C8_Original ==
    FailedMsiInit =>
        FreeIrqOrder = Reverse(TraceChannels("request_irq", TRUE))

\* C8 amended: when init fails in message-signaled mode after binding the
\* vectors of channels 0..k-1, the unwind releases exactly those vectors in
\* binding order (channel 0 first, channel k-1 last).
C8_UnwindInBindingOrder ==
    FailedMsiInit =>
        FreeIrqOrder = TraceChannels("request_irq", TRUE)

\* A failed init that had bound channels 0 and 1 before request_irq failed.
C8_Witness ==
    /\ FailedMsiInit
    /\ TraceHas("request_irq", FALSE)
    /\ TraceChannels("request_irq", TRUE) = <<0, 1>>

-----------------------------------------------------------------------------
(* Properties of the register dump                                           *)

InRevisionRange(d) == revision \in d.min_revision..d.max_revision

\* 16 bytes per applicable flat register plus rows * min(step, 16) per
\* applicable table.
ExpectedDumpBytes ==
    LET T[i \in 0..Len(reg_tables)] ==
            IF i = 0 THEN 0
            ELSE T[i - 1] +
                 (IF InRevisionRange(reg_tables[i])
                  THEN reg_tables[i].rows *
                       (IF reg_tables[i].step > 16 THEN 16
                        ELSE reg_tables[i].step)
                  ELSE 0)
    IN  16 * Cardinality({i \in 1..Len(efx_nic_regs) :
                             InRevisionRange(efx_nic_regs[i])})
        + T[Len(reg_tables)]

\* C1: for every device revision 1..4 the byte count returned by
\* efx_nic_get_regs_len equals the number of bytes efx_nic_get_regs writes:
\* 16 bytes per applicable flat register plus rows * min(step, 16) per
\* applicable table; the extraction never writes past that length (no
\* overflow) and ends exactly at it (no underflow).
C1_LenMatchesDump ==
    /\ regs_len # -1 => regs_len = ExpectedDumpBytes
    /\ dump_pc # "idle" => (buf <= regs_len /\ hi_water <= regs_len)
    /\ dump_pc = "done" =>
           /\ buf = regs_len
           /\ hi_water = regs_len
           /\ bytes_written = regs_len

\* A finished dump of a revision whose applicable tables include a 32-byte
\* step table and a 4-byte step table.
C1_Witness ==
    /\ dump_pc = "done"
    /\ regs_len > 0
    /\ \E i \in 1..Len(reg_tables) :
           InRevisionRange(reg_tables[i]) /\ reg_tables[i].step = 32
    /\ \E i \in 1..Len(reg_tables) :
           InRevisionRange(reg_tables[i]) /\ reg_tables[i].step = 4

\* C9: in efx_nic_get_regs, for a table with step = 32 the 128-bit table
\* read of logical row i is issued at physical index 2 * i and the output
\* cursor advances by 16 bytes for the row; for step = 16 the read index is
\* i and the cursor advances by 16 bytes as well.
C9_InterleavedReadIndex ==
    /\ last_read.step = 32 =>
           /\ last_read.fn = "efx_reado_table"
           /\ last_read.index = 2 * last_read.row
           /\ buf = last_read.at + 16
    /\ last_read.step = 16 =>
           /\ last_read.fn = "efx_reado_table"
           /\ last_read.index = last_read.row
           /\ buf = last_read.at + 16

\* The second row of a 32-byte step table has just been read.
C9_Witness ==
    /\ last_read.step = 32
    /\ last_read.row = 1
    /\ dump_pc = "tables"

-----------------------------------------------------------------------------
(* Properties of the statistics codec                                        *)

\* The little-endian value of the given width at byte offset off.
FieldValue(dma, off, width) ==
    [k \in 1..4 |-> IF 16 * k <= width
                    THEN dma[off + 2 * k - 1] + 256 * dma[off + 2 * k]
                    ELSE 0]

Enabled(i) == i < stat_count /\ i \in stat_mask

Decoded(i) == Enabled(i) /\ Desc(i).dma_width \in {16, 32, 64}

Skipped(i) == ~Enabled(i) \/ Desc(i).dma_width = 0

\* C6: after efx_nic_update_stats, for every index i < count whose mask bit
\* is set and whose dma_width is 16, 32 or 64, stats[i] is the little-endian
\* value of that width at desc[i].offset of the snapshot when accumulate is
\* false, and its previous value plus that value when accumulate is true
\* (two successive accumulating calls yield s + delta1 + delta2); an index
\* that is disabled or has dma_width 0 keeps its previous stats[i].
C6_UpdateDecodes ==
    LET n == Len(upd_log) IN
    \A i \in 0..(MaxStats - 1) :
        /\ (n >= 1 /\ Decoded(i)) =>
               LET e == upd_log[n]
                   v == FieldValue(e.dma, Desc(i).offset, Desc(i).dma_width)
               IN  stats[i + 1] = IF e.accumulate
                                  THEN AddU64(e.before[i + 1], v)
                                  ELSE v
        /\ (n >= 1 /\ Skipped(i)) => stats[i + 1] = upd_log[n].before[i + 1]
        /\ (n >= 2 /\ Decoded(i) /\ upd_log[n].accumulate
                 /\ upd_log[n - 1].accumulate) =>
               LET d1 == FieldValue(upd_log[n - 1].dma, Desc(i).offset,
                                    Desc(i).dma_width)
                   d2 == FieldValue(upd_log[n].dma, Desc(i).offset,
                                    Desc(i).dma_width)
               IN  stats[i + 1] =
                       AddU64(AddU64(upd_log[n - 1].before[i + 1], d1), d2)

\* Two accumulating updates from different snapshots, with a decoded 16-bit
\* counter, an enabled counter of width 0 and a disabled counter.
C6_Witness ==
    /\ Len(upd_log) = 2
    /\ upd_log[1].accumulate /\ upd_log[2].accumulate
    /\ upd_log[1].dma # upd_log[2].dma
    /\ \E i \in 0..(MaxStats - 1) :
           /\ Enabled(i) /\ Desc(i).dma_width = 16
           /\ stats[i + 1] # upd_log[2].before[i + 1]
    /\ \E i \in 0..(MaxStats - 1) : Enabled(i) /\ Desc(i).dma_width = 0
    /\ \E i \in 0..(MaxStats - 1) : ~Enabled(i)

\* The enabled indices that have a name.
VisibleSet == {i \in 0..(MaxStats - 1) : Enabled(i) /\ ~Desc(i).name.null}

\* The k-th of them in ascending order, k from 1.
KthVisible(k) ==
    CHOOSE i \in VisibleSet : Cardinality({j \in VisibleSet : j < i}) = k - 1

\* The string held by the slot at byte offset pos: the bytes before its
\* first terminator; <<-1>> when the slot holds no terminator.
SlotString(pos) ==
    LET ends == {n \in 0..(ETH_GSTRING_LEN - 1) : names_buf[pos + n + 1] = 0}
    IN  IF ends = {} THEN <<-1>>
        ELSE LET n == CHOOSE m \in ends : \A o \in ends : m <= o
             IN  SubSeq(names_buf, pos + 1, pos + n)

\* C7: efx_nic_describe_stats returns the number of set bits among the first
\* count bits of the mask whose descriptor has a name, and when a names
\* buffer is given, slot k (at byte offset k * ETH_GSTRING_LEN) holds the
\* name of the k-th such descriptor in ascending index order; enabled but
\* unnamed indices consume no slot.
C7_DescribeCountsNamed ==
    visible # -1 =>
        /\ visible = Cardinality(VisibleSet)
        /\ names_given =>
               \A k \in 1..Cardinality(VisibleSet) :
                   SlotString((k - 1) * ETH_GSTRING_LEN) =
                       Desc(KthVisible(k)).name.chars

\* A names buffer was given, an enabled unnamed index precedes two named
\* ones, one of which has the longest name a slot can hold.
C7_Witness ==
    /\ visible = 2
    /\ names_given
    /\ \E i \in 0..(MaxStats - 1) :
           /\ Enabled(i) /\ Desc(i).name.null
           /\ \A j \in VisibleSet : i < j
    /\ \E j \in VisibleSet :
           Len(Desc(j).name.chars) = ETH_GSTRING_LEN - 1

=============================================================================
